---- MODULE Spec2Model ----
(***************************************************************************)
(* Model of the real-time connection and request layer of the Messenger    *)
(* client: WebSocketManager (src/src/client/WebSocketManager.js) and       *)
(* NetworkManager (src/src/client/AuthManager.js, second half).            *)
(*                                                                         *)
(* WebSocketManager.  Every method of the class is an operator from a      *)
(* record of the handle's state ("world") to the record after the call,    *)
(* named as in the source.  An action is one run of the event loop: an API *)
(* call, a transport event or a timer callback, together with the promise  *)
(* continuations it releases.  Timers are pending/not pending; which       *)
(* pending timer fires next is an environment choice, except that the      *)
(* heartbeat timeout (10 s) armed by a tick of the heartbeat interval      *)
(* (30 s) is over before the next tick of that interval.                   *)
(*                                                                         *)
(* The handle is built by MessengerClient (MessengerClient.js:28-34),      *)
(* which creates the WebSocketManager before the NetworkManager, so        *)
(* this.network is undefined inside the manager, _getConnectionInfo fails  *)
(* over to its fallback within the same event-loop turn                    *)
(* (WebSocketManager.js:219-226) and connect() runs from its guard to      *)
(* _waitForConnection without yielding to another handler.                 *)
(*                                                                         *)
(* The client registers an 'error' listener on the manager                 *)
(* (MessengerClient.js:270) and the caller one on the client               *)
(* (README.md:293), so emit('error') returns normally.  The calls into the *)
(* ws package that the code makes (close(1000, ...), send(string) on a     *)
(* socket that is not CONNECTING) do not throw.                            *)
(***************************************************************************)
EXTENDS Naturals, Integers, Sequences, FiniteSets, TLC

(* ---- program constants ---- *)
maxReconnectAttempts == 5
reconnectDelay == 1000
rateLimitDelay == 1000
maxRetries == 3
retryDelay == 2000
messageLimit == 30

(* ---- bounds of the model ---- *)
MaxTransports == 2
MaxConnects == 3
MaxSends == 2
MaxHbTimers == 2
MaxReconnectTimers == 2
MaxRequests == 2
MaxSubscribers == 2
MaxSending == 2

VARIABLES
  autoReconnect,      \* client.options.autoReconnect
  isConnected,        \* this.isConnected
  isConnecting,       \* this.isConnecting
  reconnectAttempts,  \* this.reconnectAttempts
  ws,                 \* this.ws: 0 is null, else the transport it refers to
  heartbeatInterval,  \* this.heartbeatInterval: "null" or "set"
  heartbeatTimeout,   \* this.heartbeatTimeout: "null", "pending" (armed by the interval),
                      \* "rearmed" (armed by _handleHeartbeat), "stale" (fired, handle kept)
  pendingMessages,    \* this.pendingMessages: message id -> stored record
  transport,          \* the WebSockets the handle created, by slot: "none" (slot free),
                      \* "connecting", "open", "failing" (error delivered, close to come),
                      \* "closing" (close() called, close to come), "closed"
  created,            \* number of WebSockets created so far
  pc,                 \* where the running connect() is suspended
  leakedIntervals,    \* heartbeat intervals still running that no field refers to
  orphanTimeouts,     \* pending heartbeat timeouts that no field refers to
  reconnectTimers,    \* pending reconnect timers, each with its delay
  sends,              \* every sendMessage() promise: "none", "waiting", "resolved", "rejected"
  requestCount,       \* NetworkManager.requestCount
  lastRequestTime,    \* NetworkManager.lastRequestTime
  req,                \* every call of _makeRequest: where it is and what it has seen
  lastDispatch,       \* when the latest attempt was dispatched, -1 before the first
  lastGap,            \* time between the two latest dispatches, -1 before the second
  options,            \* client.options: maxRetries, rateLimitDelay, retryDelay
  subscribers,        \* the application's listeners for the client's inbound events, in
                      \* the order they were registered: each "returns" or "throws"
  dispatched,         \* the latest inbound event: which listeners ran, what escaped
  isAuthenticated,    \* client.isAuthenticated
  called,             \* the latest operation of the client and how it ended
  messageCount,       \* MessageManager.messageCount
  windowExpired,      \* whether Date.now() is past MessageManager.rateLimitResetTime
  sending             \* calls of _sendMessage that are past _checkRateLimit and have
                      \* not settled

wsVars == <<autoReconnect, isConnected, isConnecting, reconnectAttempts, ws,
            heartbeatInterval, heartbeatTimeout, pendingMessages, transport,
            created, pc, leakedIntervals, orphanTimeouts, reconnectTimers,
            sends>>

netVars == <<requestCount, lastRequestTime, req, lastDispatch, lastGap>>

\* What the application hands to the client and its managers.
msgVars == <<messageCount, windowExpired, sending>>

appVars == <<options, subscribers, dispatched, isAuthenticated, called, msgVars>>

Transports == 1..MaxTransports
MsgIds == 1..MaxSends

(* A transport is live from its creation until it is closed, by the handle *)
(* (close() called) or by the peer (error or close delivered).  A closed   *)
(* transport that this.ws no longer refers to is out of the program's      *)
(* reach and delivers nothing more; its slot is free again.                *)
Live(t) == transport[t] \in {"connecting", "open"}
LiveTransports == {t \in Transports : Live(t)}

(* ---- the handle's state as one record ---- *)
(* Besides the state, the record collects what a call leaves for its       *)
(* caller: the events it emitted, in order (emitted), and whether it asked *)
(* for more transports than the model holds (overflow).                    *)
World ==
  [autoReconnect |-> autoReconnect, isConnected |-> isConnected,
   isConnecting |-> isConnecting, reconnectAttempts |-> reconnectAttempts,
   ws |-> ws, heartbeatInterval |-> heartbeatInterval,
   heartbeatTimeout |-> heartbeatTimeout, pendingMessages |-> pendingMessages,
   transport |-> transport, overflow |-> FALSE, created |-> created, pc |-> pc,
   leakedIntervals |-> leakedIntervals, orphanTimeouts |-> orphanTimeouts,
   reconnectTimers |-> reconnectTimers, sends |-> sends, emitted |-> <<>>]

Commit(w) ==
  /\ autoReconnect' = w.autoReconnect
  /\ isConnected' = w.isConnected
  /\ isConnecting' = w.isConnecting
  /\ reconnectAttempts' = w.reconnectAttempts
  /\ ws' = w.ws
  /\ heartbeatInterval' = w.heartbeatInterval
  /\ heartbeatTimeout' = w.heartbeatTimeout
  /\ pendingMessages' = w.pendingMessages
  /\ transport' = w.transport
  /\ created' = w.created
  /\ pc' = w.pc
  /\ leakedIntervals' = w.leakedIntervals
  /\ orphanTimeouts' = w.orphanTimeouts
  /\ reconnectTimers' = w.reconnectTimers
  /\ sends' = w.sends

emit(w, e) == [w EXCEPT !.emitted = Append(@, e)]

(* ---- heartbeat (WebSocketManager.js:495-534) ---- *)

\* setInterval(...) assigned to this.heartbeatInterval; an interval already
\* referred to by the field keeps running with no reference left to it.
_startHeartbeat(w) ==
  [w EXCEPT !.heartbeatInterval = "set",
            !.leakedIntervals = IF w.heartbeatInterval = "set" THEN @ + 1 ELSE @]

\* The values of this.heartbeatTimeout that are a timer still to fire.
Armed == {"pending", "rearmed"}

\* setTimeout(...) assigned to this.heartbeatTimeout, the old handle overwritten.
_startHeartbeatTimeout(w) ==
  [w EXCEPT !.heartbeatTimeout = "pending",
            !.orphanTimeouts = IF w.heartbeatTimeout \in Armed THEN @ + 1 ELSE @]

_stopHeartbeat(w) ==
  [w EXCEPT !.heartbeatInterval = "null", !.heartbeatTimeout = "null"]

\* Lines 356-362: clearTimeout(this.heartbeatTimeout), then
\* this._startHeartbeatTimeout().  The timeout set here starts at the arrival
\* of the frame, not at a tick of the interval.
_handleHeartbeat(w) ==
  IF w.heartbeatTimeout # "null"
    THEN [_startHeartbeatTimeout([w EXCEPT !.heartbeatTimeout = "stale"])
            EXCEPT !.heartbeatTimeout = "rearmed"]
    ELSE w

(* ---- reconnect (WebSocketManager.js:367-403) ---- *)

\* A factor that grows by one with every attempt instead of doubling.
Mut_Pow2(n) == n + 1

RECURSIVE Pow2(_)
Pow2(n) == IF n = 0 THEN 1 ELSE 2 * Pow2(n - 1)

\* The pending reconnect timers form a multiset of delays, kept as a sorted
\* sequence: setTimeout returns a handle the code throws away.
AddTimer(s, d) ==
  LET k == Cardinality({j \in 1..Len(s) : s[j] <= d})
  IN [j \in 1..(Len(s) + 1) |->
        IF j <= k THEN s[j] ELSE IF j = k + 1 THEN d ELSE s[j - 1]]

\* _scheduleReconnect with the exponent of the delay off by one.
Mut_scheduleReconnect(w) ==
  LET n == w.reconnectAttempts + 1
  IN [w EXCEPT !.reconnectAttempts = n,
               !.reconnectTimers = AddTimer(@, reconnectDelay * Pow2(n))]

\* Lines 392-395: the counter goes up, then the timer is set.
_scheduleReconnect(w) ==
  LET n == w.reconnectAttempts + 1
  IN [w EXCEPT !.reconnectAttempts = n,
               !.reconnectTimers = AddTimer(@, reconnectDelay * Pow2(n - 1))]

\* _handleWebSocketClose without the test of reconnectAttempts against the cap.
Mut_handleWebSocketClose(w) ==
  LET w1 == emit([w EXCEPT !.isConnected = FALSE], "close")
  IN IF w1.autoReconnect THEN _scheduleReconnect(w1) ELSE w1

_handleWebSocketClose(w) ==
  LET w1 == emit([w EXCEPT !.isConnected = FALSE], "close")
  IN IF w1.autoReconnect /\ w1.reconnectAttempts < maxReconnectAttempts
       THEN _scheduleReconnect(w1)
       ELSE w1

_handleWebSocketError(w) ==
  LET w1 == emit(w, "error")
  IN IF w1.autoReconnect /\ w1.reconnectAttempts < maxReconnectAttempts
       THEN _scheduleReconnect(w1)
       ELSE w1

(* ---- connect() (WebSocketManager.js:39-82) ---- *)

\* Lines 40-62: the guard, then up to the wait for the transport's 'open'.
FreeSlots(w) == {t \in Transports : w.transport[t] \in {"none", "closed"}}

\* connect() with a guard that tests isConnected only.
Mut_connect(w) ==
  IF w.isConnected
    THEN w
    ELSE IF FreeSlots(w) = {}
      THEN [w EXCEPT !.overflow = TRUE]
      ELSE LET t == CHOOSE x \in FreeSlots(w) : \A y \in FreeSlots(w) : x <= y
           IN [emit([w EXCEPT !.isConnecting = TRUE], "connecting")
                 EXCEPT !.transport[t] = "connecting", !.created = @ + 1,
                        !.ws = t, !.pc = "waitOpen"]

connect(w) ==
  IF w.isConnected \/ w.isConnecting
    THEN w
    ELSE IF FreeSlots(w) = {}
      THEN [w EXCEPT !.overflow = TRUE]
      ELSE LET t == CHOOSE x \in FreeSlots(w) : \A y \in FreeSlots(w) : x <= y
           IN [emit([w EXCEPT !.isConnecting = TRUE], "connecting")
                 EXCEPT !.transport[t] = "connecting", !.created = @ + 1,
                        !.ws = t, !.pc = "waitOpen"]

\* A connect() that takes the handle for connected as soon as the transport
\* has opened.
Mut_connectOpened(w) == [w EXCEPT !.pc = "waitAuth", !.isConnected = TRUE]

\* Lines 62-65: 'open' arrived; the authentication payload is sent and the
\* call waits for the authentication response (WebSocketManager.js:429-469).
connectOpened(w) == [w EXCEPT !.pc = "waitAuth"]

\* A success path that does not clear isConnecting.
Mut_connectAuthenticated(w) ==
  emit(emit([_startHeartbeat(w) EXCEPT !.isConnected = TRUE,
                                       !.reconnectAttempts = 0, !.pc = "idle"],
            "connect"), "connection")

\* Lines 67-75: the authentication wait resolved.
connectAuthenticated(w) ==
  emit(emit([_startHeartbeat(w) EXCEPT !.isConnected = TRUE,
                                       !.isConnecting = FALSE,
                                       !.reconnectAttempts = 0, !.pc = "idle"],
            "connect"), "connection")

\* A catch block that also clears the reconnect counter.
Mut_connectFailed(w) ==
  emit([w EXCEPT !.isConnecting = FALSE, !.pc = "idle", !.reconnectAttempts = 0],
       "error")

\* A catch block that leaves isConnecting set.
Mut_connectFailedStuck(w) == emit([w EXCEPT !.pc = "idle"], "error")

\* Lines 77-81: a wait rejected; the transport is left as it is.
connectFailed(w) ==
  emit([w EXCEPT !.isConnecting = FALSE, !.pc = "idle"], "error")

(* ---- disconnect() (WebSocketManager.js:87-109) ---- *)

\* ws.close(): starts the closing handshake of a live transport.
close(w, t) ==
  IF w.transport[t] \in {"connecting", "open"}
    THEN [w EXCEPT !.transport[t] = "closing"]
    ELSE w

disconnect(w) ==
  IF ~w.isConnected
    THEN w
    ELSE LET w1 == _stopHeartbeat(w)
             w2 == IF w1.ws # 0 THEN [close(w1, w1.ws) EXCEPT !.ws = 0] ELSE w1
         IN emit(emit([w2 EXCEPT !.isConnected = FALSE], "disconnect"),
                 "disconnection")

\* disconnect() when this.ws.close(...) throws: the catch (lines 106-108) logs
\* the error, so what follows the call in the try block (lines 99-104) is
\* skipped.  Whether close() throws is up to the WebSocket implementation.
disconnectCloseThrows(w) ==
  IF ~w.isConnected \/ w.ws = 0
    THEN disconnect(w)
    ELSE _stopHeartbeat(w)

\* destroy() (lines 581-585), called by MessengerClient.destroy
\* (MessengerClient.js:290-294): _stopHeartbeat(), disconnect(), then
\* removeAllListeners() on the manager, which leaves the listeners on the
\* WebSocket and the timers as they are.
destroy(w) == disconnect(_stopHeartbeat(w))

(* ---- sendMessage() and acknowledgments (WebSocketManager.js:114-139, 345-351, 474-490) ---- *)

\* The ids _generateMessageId hands out are pairwise distinct; the model
\* numbers them in the order of the calls.
_generateMessageId(w) == Cardinality({i \in MsgIds : w.sends[i] # "none"}) + 1

\* Lines 120-125: the object stored in pendingMessages.  It has the fields
\* type, data, timestamp and id; data and timestamp play no part here.
StoredMessage(i) == [type |-> "message", id |-> i]

\* The value of message.message_id as read by ackHandler; 0 stands for
\* undefined (the object has no such field), which equals no generated id.
message_id(m) == IF "message_id" \in DOMAIN m THEN m.message_id ELSE 0

sendMessage(w) ==
  IF ~w.isConnected
    THEN w
    ELSE LET i == _generateMessageId(w)
         IN [w EXCEPT !.pendingMessages = (i :> StoredMessage(i)) @@ @,
                      !.sends[i] = "waiting"]

\* sendMessage() when line 130 throws: JSON.stringify, for a messageData it
\* cannot serialize, or the socket's send(), for an implementation that
\* throws on a socket that is not open.  The record was stored at line 128;
\* the catch (lines 136-138) rethrows and deletes nothing.
sendMessageThrows(w) ==
  IF ~w.isConnected
    THEN w
    ELSE LET i == _generateMessageId(w)
         IN [w EXCEPT !.pendingMessages = (i :> StoredMessage(i)) @@ @,
                      !.sends[i] = "rejected"]

\* ackHandlers matching on the stored record's id and settling the promise
\* whatever its state.
Mut_ackHandlers(w, m) ==
  [w EXCEPT !.sends = [i \in MsgIds |->
      IF "id" \in DOMAIN m /\ m.id = i THEN "resolved" ELSE w.sends[i]]]

\* ackHandler of _waitForAcknowledgment (lines 480-486), one per waiting send,
\* run on the payload of a 'messageAcknowledged' event.
ackHandlers(w, m) ==
  [w EXCEPT !.sends = [i \in MsgIds |->
      IF w.sends[i] = "waiting" /\ message_id(m) = i THEN "resolved" ELSE w.sends[i]]]

_handleAcknowledgment(w, f) ==
  IF f.message_id \in DOMAIN w.pendingMessages
    THEN LET pendingMessage == w.pendingMessages[f.message_id]
             rest == DOMAIN w.pendingMessages \ {f.message_id}
             w1 == [w EXCEPT !.pendingMessages = [i \in rest |-> w.pendingMessages[i]]]
         IN ackHandlers(emit(w1, "messageAcknowledged"), pendingMessage)
    ELSE w

(* ---- inbound frames (WebSocketManager.js:253-340, 448-469) ---- *)

\* authHandler of _waitForAuthentication (lines 454-465), subscribed to the
\* manager's own 'message' event while connect() waits for authentication.
authHandler(w, m) ==
  IF w.pc = "waitAuth" /\ m.type = "authentication_response"
    THEN IF "success" \in DOMAIN m /\ m.success
           THEN connectAuthenticated(w)
           ELSE connectFailed(w)
    ELSE w

\* Lines 289-304: messageData is rebuilt field by field from message.data
\* (message_id, text, type, timestamp, thread_id, sender), then emitted.
_handleIncomingMessage(w, f) ==
  LET messageData == [type |-> f.dataType]
  IN authHandler(emit(w, "message"), messageData)

\* _handleWebSocketMessage handing a frame of an unknown type on as an event
\* and reporting a frame that cannot be decoded.
Mut_handleWebSocketMessage(w, f) ==
  IF f.type = "malformed" THEN emit(w, "error") ELSE emit(w, f.type)

_handleWebSocketMessage(w, f) ==
  CASE f.type = "malformed" -> w
    [] f.type = "message" -> _handleIncomingMessage(w, f)
    [] f.type = "typing" -> emit(w, "typing")
    [] f.type = "read_receipt" -> emit(w, "read")
    [] f.type = "online_status" -> emit(w, IF f.online THEN "online" ELSE "offline")
    [] f.type = "acknowledgment" -> _handleAcknowledgment(w, f)
    [] f.type = "heartbeat" -> _handleHeartbeat(w)
    [] OTHER -> w

\* The frames a peer can send; every field the handlers read is present.
AckFrames == [type : {"acknowledgment"}, message_id : MsgIds]

OtherFrames ==
  [type : {"authentication_response"}, success : BOOLEAN]
    \cup [type : {"message"}, dataType : {"text", "authentication_response"}]

Frames == AckFrames \cup OtherFrames \cup {[type |-> "heartbeat"]}

(* ---- bounds on what an action may leave behind ---- *)
HbTimersPending(w) ==
  (IF w.heartbeatTimeout \in Armed THEN 1 ELSE 0) + w.orphanTimeouts

HbIntervalsRunning(w) ==
  (IF w.heartbeatInterval = "set" THEN 1 ELSE 0) + w.leakedIntervals

WithinBounds(w) ==
  /\ ~w.overflow
  /\ w.created <= MaxConnects
  /\ HbTimersPending(w) <= MaxHbTimers
  /\ HbIntervalsRunning(w) <= MaxHbTimers
  /\ Len(w.reconnectTimers) <= MaxReconnectTimers

\* The slots of closed transports that this.ws does not refer to are freed.
Collect(w) ==
  [w EXCEPT !.transport =
     [t \in Transports |->
        IF w.transport[t] = "closed" /\ w.ws # t THEN "none" ELSE w.transport[t]]]

Step(w) ==
  /\ WithinBounds(w)
  /\ Commit(Collect(w))
  /\ UNCHANGED <<netVars, appVars>>

(* ---- initial state: the constructor (WebSocketManager.js:12-34) ---- *)
InitWs ==
  /\ autoReconnect \in BOOLEAN
  /\ isConnected = FALSE
  /\ isConnecting = FALSE
  /\ reconnectAttempts = 0
  /\ ws = 0
  /\ heartbeatInterval = "null"
  /\ heartbeatTimeout = "null"
  /\ pendingMessages = <<>>
  /\ transport = [t \in Transports |-> "none"]
  /\ created = 0
  /\ pc = "idle"
  /\ leakedIntervals = 0
  /\ orphanTimeouts = 0
  /\ reconnectTimers = <<>>
  /\ sends = [i \in MsgIds |-> "none"]

(* ---- API calls ---- *)
Connect ==
  /\ Step(connect(World))

Disconnect ==
  /\ Step(disconnect(World))

SendMessage ==
  /\ \E i \in MsgIds : sends[i] = "none"
  /\ Step(sendMessage(World))

(* An 'authentication_response' event on the manager's 'message' channel.   *)
(* authHandler is the only reader of such an event.  No handler of the      *)
(* manager emits one with a success field (_handleIncomingMessage rebuilds  *)
(* the payload without it), so the event that takes line 460 comes from an  *)
(* owner of the handle calling emit() on it; it is an input of the model.   *)
AuthResponseEvent ==
  /\ pc = "waitAuth"
  /\ \E b \in BOOLEAN :
       Step(authHandler(emit(World, "message"),
                        [type |-> "authentication_response", success |-> b]))

(* ---- transport events (WebSocketManager.js:232-248, 408-424) ---- *)
TransportOpen ==
  \E t \in Transports :
    /\ transport[t] = "connecting"
    /\ LET w1 == emit([World EXCEPT !.transport[t] = "open"], "open")
           w2 == IF pc = "waitOpen" /\ ws = t THEN connectOpened(w1) ELSE w1
       IN Step(w2)

TransportError ==
  \E t \in Transports :
    /\ transport[t] \in {"connecting", "open"}
    /\ LET w1 == _handleWebSocketError([World EXCEPT !.transport[t] = "failing"])
           w2 == IF pc = "waitOpen" /\ ws = t THEN connectFailed(w1) ELSE w1
       IN Step(w2)

TransportClose ==
  \E t \in Transports :
    /\ transport[t] \in {"open", "failing", "closing"}
    /\ Step(_handleWebSocketClose([World EXCEPT !.transport[t] = "closed"]))

\* A frame reaches _handleWebSocketMessage from any transport that can still
\* deliver one; the handlers are the same for every transport.
Receiving == \E t \in Transports : transport[t] \in {"open", "closing"}

HeartbeatFrame ==
  /\ Receiving
  /\ Step(_handleWebSocketMessage(World, [type |-> "heartbeat"]))

Frame ==
  \E f \in OtherFrames :
    /\ Receiving
    /\ Step(_handleWebSocketMessage(World, f))

AckFrame ==
  \E f \in AckFrames :
    /\ Receiving
    /\ Step(_handleWebSocketMessage(World, f))

(* ---- inbound events and their subscribers ---- *)
\* The frames whose handlers (lines 309-340) emit an event and do nothing else.
EventFrames ==
  {[type |-> "typing"], [type |-> "read_receipt"]}
    \cup [type : {"online_status"}, online : BOOLEAN]

\* No inbound event has been dispatched yet.
NoDispatch == [event |-> "", invoked |-> {}, escaped |-> FALSE]

\* EventEmitter.emit calls the listeners of an event one after the other, in
\* the order they were registered, on the caller's stack: a listener that
\* throws ends the call, and the listeners after it are not called.
invokedBy(subs) ==
  {k \in 1..Len(subs) : \A j \in 1..(k - 1) : subs[j] # "throws"}

\* The manager's event goes to the client's relay (MessengerClient.js:234-256),
\* which emits it on the client, where the application's listeners are.  What
\* a listener throws unwinds through both emit calls and the handler into the
\* try block of _handleWebSocketMessage, whose catch (lines 281-283) logs it.
dispatch(w, subs) ==
  IF w.emitted = <<>>
    THEN NoDispatch
    ELSE [event |-> w.emitted[Len(w.emitted)],
          invoked |-> invokedBy(subs),
          escaped |-> FALSE]

DeliverEvent ==
  \E f \in EventFrames :
    /\ Receiving
    /\ LET w == _handleWebSocketMessage(World, f)
       IN /\ WithinBounds(w)
          /\ Commit(Collect(w))
          /\ dispatched' = dispatch(w, subscribers)
    /\ UNCHANGED <<netVars, options, subscribers, isAuthenticated, called, msgVars>>

\* The client's listeners for the manager's connection events
\* (MessengerClient.js:259-267): 'connect' sets client.isConnected,
\* 'disconnect' clears it, and no other event of the manager touches it.
RECURSIVE clientIsConnected(_, _)
clientIsConnected(flag, events) ==
  IF events = <<>>
    THEN flag
    ELSE clientIsConnected(
           CASE Head(events) = "connect" -> TRUE
             [] Head(events) = "disconnect" -> FALSE
             [] OTHER -> flag,
           Tail(events))

(* ---- the client's guarded operations (MessengerClient.js:111-227) ---- *)
GuardedOps ==
  {"sendMessage", "sendMedia", "getContacts", "getChats", "getProfile",
   "updateStatus", "markAsRead", "sendTyping", "reactToMessage",
   "getMessageHistory", "searchMessages"}

\* No operation of the client has been called yet.
NoCall == [op |-> "", error |-> "", delegated |-> FALSE]

\* A guarded operation whose first statement never leaves the client.
Mut_guardedCall(authenticated, op) ==
  IF ~authenticated /\ op # "getChats"
    THEN [op |-> op, error |-> "AuthError: Not authenticated", delegated |-> FALSE]
    ELSE [op |-> op, error |-> "", delegated |-> TRUE]

\* Each guarded operation begins with the same statement: it throws an
\* AuthError when this.isAuthenticated is false, and otherwise hands the call
\* to the method of a manager (delegated), from where the requests go out.
guardedCall(authenticated, op) ==
  IF ~authenticated
    THEN [op |-> op, error |-> "AuthError: Not authenticated", delegated |-> FALSE]
    ELSE [op |-> op, error |-> "", delegated |-> TRUE]

ClientCall ==
  \E op \in GuardedOps :
    /\ called' = guardedCall(isAuthenticated, op)
    /\ UNCHANGED <<wsVars, netVars, options, subscribers, dispatched,
                   isAuthenticated, msgVars>>

\* login (MessengerClient.js:57-87): when auth.authenticate reports success
\* the flag is set and websocket.connect() is called; otherwise login throws
\* and nothing has changed.  What authenticate reports is an input.  In a
\* client that is left as its constructor built it, the AuthManager holds no
\* network manager (it is created first, MessengerClient.js:29 and 34) and
\* authenticate throws; it reports success once the owner has given it one
\* or has replaced authenticate, as the tests replace methods of the client.
Login ==
  \E success \in BOOLEAN :
    IF success
      THEN /\ isAuthenticated' = TRUE
           /\ LET w == connect(World)
              IN WithinBounds(w) /\ Commit(Collect(w))
           /\ called' = [op |-> "login", error |-> "", delegated |-> TRUE]
           /\ UNCHANGED <<netVars, options, subscribers, dispatched, msgVars>>
      ELSE /\ called' = [op |-> "login", error |-> "AuthError: Authentication failed",
                         delegated |-> TRUE]
           /\ UNCHANGED <<wsVars, netVars, options, subscribers, dispatched,
                          isAuthenticated, msgVars>>

\* logout (MessengerClient.js:92-106): websocket.disconnect(), auth.logout(),
\* whose own catch keeps it from throwing, then the flag is cleared.
Logout ==
  /\ isAuthenticated' = FALSE
  /\ LET w == disconnect(World)
     IN WithinBounds(w) /\ Commit(Collect(w))
  /\ UNCHANGED <<netVars, options, subscribers, dispatched, called, msgVars>>

(* ---- MessageManager's rate limit (WebSocketManager.js:926-1054) ---- *)
\* The constructor, lines 610-612: the first window has just begun.
InitMessages ==
  /\ messageCount = 0
  /\ windowExpired = FALSE
  /\ sending = 0

Messages ==
  [messageCount |-> messageCount, windowExpired |-> windowExpired,
   sending |-> sending]

CommitMessages(m) ==
  /\ messageCount' = m.messageCount
  /\ windowExpired' = m.windowExpired
  /\ sending' = m.sending

\* Lines 1026-1046.  Past the reset time the counter is cleared and a new
\* window begins; a counter at the limit throws; otherwise the call goes on,
\* after the wait that keeps two sends a second apart, to the request.
_checkRateLimit(m) ==
  LET m1 == IF m.windowExpired
              THEN [m EXCEPT !.messageCount = 0, !.windowExpired = FALSE]
              ELSE m
  IN IF m1.messageCount >= messageLimit
       THEN m1
       ELSE [m1 EXCEPT !.sending = @ + 1]

\* Lines 1051-1054, called at line 966 once the response reports success.
_updateRateLimit(m) == [m EXCEPT !.messageCount = @ + 1]

\* _sendMessage up to its request (lines 926-939).
SendCall ==
  /\ sending < MaxSending
  /\ IF isAuthenticated
       THEN CommitMessages(_checkRateLimit(Messages))
       ELSE UNCHANGED msgVars
  /\ UNCHANGED <<wsVars, netVars, options, subscribers, dispatched,
                 isAuthenticated, called>>

\* Lines 958-971: the response reports success.  The response is an input;
\* the MessageManager needs a network manager from its owner as the
\* AuthManager does.
SendSucceeds ==
  /\ sending > 0
  /\ CommitMessages(_updateRateLimit([Messages EXCEPT !.sending = @ - 1]))
  /\ UNCHANGED <<wsVars, netVars, options, subscribers, dispatched,
                 isAuthenticated, called>>

\* Lines 972-977: the request failed or the response reports no success.
SendFails ==
  /\ sending > 0
  /\ CommitMessages([Messages EXCEPT !.sending = @ - 1])
  /\ UNCHANGED <<wsVars, netVars, options, subscribers, dispatched,
                 isAuthenticated, called>>

\* The clock passes rateLimitResetTime.
WindowElapses ==
  /\ ~windowExpired
  /\ windowExpired' = TRUE
  /\ UNCHANGED <<messageCount, sending>>
  /\ UNCHANGED <<wsVars, netVars, options, subscribers, dispatched,
                 isAuthenticated, called>>

(* ---- timers ---- *)
\* _waitForConnection, lines 410-412 (30 s).
ConnectionTimeout ==
  /\ pc = "waitOpen"
  /\ Step(connectFailed(World))

\* _waitForAuthentication, lines 450-452 (10 s).
AuthenticationTimeout ==
  /\ pc = "waitAuth"
  /\ Step(connectFailed(World))

\* _waitForAcknowledgment, lines 476-478 (10 s): the promise rejects.
AckTimeout ==
  \E i \in MsgIds :
    /\ sends[i] = "waiting"
    /\ Step([World EXCEPT !.sends[i] = "rejected"])

\* The transport an interval callback sends its heartbeat payload on, 0 when
\* it sends none (lines 497-503): this.ws, read when the callback runs, under
\* the test of this.isConnected.  Every interval the handle has started sends
\* on the same transport, whichever connection started it.
heartbeatTarget(w) == IF w.isConnected THEN w.ws ELSE 0

\* The interval callback of _startHeartbeat, lines 496-506 (every 30 s).
heartbeatTick(w) == IF w.isConnected THEN _startHeartbeatTimeout(w) ELSE w

\* A timeout armed by a tick (10 s) has fired or been cleared by the next tick
\* of the same interval (30 s); one armed by a frame, or by another interval,
\* can be pending at a tick.
HeartbeatTick ==
  /\ \/ heartbeatInterval = "set" /\ heartbeatTimeout # "pending"
     \/ leakedIntervals > 0
  /\ Step(heartbeatTick(World))

\* The timeout callback of _startHeartbeatTimeout, lines 513-518 (10 s):
\* disconnect(), then connect().  Every heartbeat timeout lasts 10 s, so they
\* fire in the order they were set and the one the field refers to, the
\* latest, fires last.
heartbeatTimedOut(w) == connect(disconnect(w))

HeartbeatTimeoutFires ==
  \/ /\ heartbeatTimeout \in Armed
     /\ orphanTimeouts = 0
     /\ Step(heartbeatTimedOut([World EXCEPT !.heartbeatTimeout = "stale"]))
  \/ /\ orphanTimeouts > 0
     /\ Step(heartbeatTimedOut([World EXCEPT !.orphanTimeouts = @ - 1]))

\* The callback of _scheduleReconnect, lines 396-402.
reconnectTimedOut(w) == IF ~w.isConnected /\ ~w.isConnecting THEN connect(w) ELSE w

RemoveAt(s, k) == [j \in 1..(Len(s) - 1) |-> IF j < k THEN s[j] ELSE s[j + 1]]

ReconnectTimerFires ==
  \E k \in 1..Len(reconnectTimers) :
    /\ Step(reconnectTimedOut([World EXCEPT !.reconnectTimers = RemoveAt(@, k)]))

(***************************************************************************)
(* NetworkManager (src/src/client/AuthManager.js:443-724).                 *)
(*                                                                         *)
(* Time is explicit here, in milliseconds, and passes in steps of Quantum.  *)
(* The code reads the clock only to take differences, so the reading of    *)
(* Date.now() is held at now and the passage of time moves every stored    *)
(* timestamp back instead, but not below 0: a timestamp of 0 is            *)
(* rateLimitDelay or more in the past, which the code does not tell from   *)
(* any earlier time.  A wait set with _wait(ms) resumes when its deadline  *)
(* is reached, and time does not pass a deadline that is due.  The answer  *)
(* to an attempt (an HTTP status or a transport error) and the moment it   *)
(* arrives are environment choices.  The manager takes its settings from   *)
(* Protocol (lines 466-468), not from the client's options.                *)
(***************************************************************************)
Requests == 1..MaxRequests
Quantum == rateLimitDelay
now == rateLimitDelay

Back(t) == IF t >= Quantum THEN t - Quantum ELSE 0

\* What the remote end does with one attempt.
Http(s) == [kind |-> "http", status |-> s, code |-> ""]
NetErr(c) == [kind |-> "error", status |-> 0, code |-> c]
Outcomes ==
  {Http(200), Http(404), Http(429), Http(503), NetErr("ECONNRESET")}

\* Errors as the retry loop reads them: error.response.status (0: no
\* response property), error.code ("": none) and details.statusCode (0: null).
Error(response, code, statusCode) ==
  [response |-> response, code |-> code, statusCode |-> statusCode]
NoError == Error(0, "", 0)

\* Line 451: the statuses for which axios resolves instead of rejecting.
validateStatus(status) == status < 500

\* The error axios rejects with: error.response for a rejected status,
\* error.code for a transport failure.
AxiosError(o) ==
  IF o.kind = "http"
    THEN Error(o.status, "ERR_BAD_RESPONSE", 0)
    ELSE Error(0, o.code, 0)

\* Lines 714-724: a NetworkError whose details carry the status; the object
\* itself has neither a response nor a code property.
_createHttpError(status) == Error(0, "", status)

\* _shouldRetry without its tests of the error: every failure is retried.
Mut_shouldRetry(error, attempt) == attempt < maxRetries

\* Lines 621-651.
_shouldRetry(error, attempt) ==
  IF attempt >= maxRetries THEN FALSE
  ELSE IF error.code \in {"ECONNRESET", "ECONNREFUSED", "ENOTFOUND", "ETIMEDOUT"} THEN TRUE
  ELSE IF error.response # 0 /\ error.response >= 500 THEN TRUE
  ELSE IF error.response # 0 /\ error.response = 429 THEN TRUE
  ELSE FALSE

\* _createNetworkError reading the status off the error itself instead of
\* off its response.
Mut_createNetworkError(error) ==
  [name |-> "NetworkError",
   statusCode |-> error.statusCode,
   originalError |-> error]

\* Lines 683-709: details.statusCode of the error the caller gets.
_createNetworkError(error) ==
  [name |-> "NetworkError",
   statusCode |-> IF error.response # 0 THEN error.response ELSE 0,
   originalError |-> error]

NoResult == [name |-> "", statusCode |-> 0, originalError |-> NoError]

\* axios.request(config) is called: one dispatched attempt.
Dispatch(r, k) ==
  /\ req' = [req EXCEPT ![r].pc = "inflight", ![r].attempt = k]
  /\ lastDispatch' = now
  /\ lastGap' = IF lastDispatch = -1 THEN -1 ELSE now - lastDispatch

\* Lines 513-519 and 656-664: a call of _makeRequest up to its first attempt.
MakeRequest ==
  \E r \in Requests :
    /\ req[r].pc = "new"
    /\ r = requestCount + 1
    /\ requestCount' = requestCount + 1
    /\ LET timeSinceLastRequest == now - lastRequestTime
       IN IF timeSinceLastRequest < rateLimitDelay
            THEN /\ req' = [req EXCEPT ![r].pc = "rateLimit",
                                       ![r].wakeAt = now + (rateLimitDelay - timeSinceLastRequest)]
                 /\ UNCHANGED <<lastDispatch, lastGap>>
            ELSE Dispatch(r, 1)
    /\ UNCHANGED lastRequestTime
    /\ UNCHANGED <<wsVars, appVars>>

RateLimitElapsed ==
  \E r \in Requests :
    /\ req[r].pc = "rateLimit"
    /\ now >= req[r].wakeAt
    /\ Dispatch(r, 1)
    /\ UNCHANGED <<requestCount, lastRequestTime>>
    /\ UNCHANGED <<wsVars, appVars>>

\* A backoff that does not grow with the attempt number.
Mut_backoffDelay(attempt) == retryDelay

\* Lines 540-541: the wait before the next attempt.
backoffDelay(attempt) == retryDelay * attempt

\* Lines 525-547: the attempt settles.  A resolved response updates
\* lastRequestTime and goes through _handleResponse (lines 604-616), which
\* throws for a status of 400 or more; whatever is thrown reaches the catch.
Response ==
  \E r \in Requests, o \in Outcomes :
    /\ req[r].pc = "inflight"
    /\ LET resolved == o.kind = "http" /\ validateStatus(o.status)
           ok == resolved /\ o.status < 400
           error == IF resolved THEN _createHttpError(o.status) ELSE AxiosError(o)
           attempt == req[r].attempt
           seen == Append(req[r].outcomes, o)
       IN /\ lastRequestTime' = IF resolved THEN now ELSE lastRequestTime
          /\ req' = [req EXCEPT ![r] =
               IF ok
                 THEN [@ EXCEPT !.pc = "resolved", !.outcomes = seen]
               ELSE IF _shouldRetry(error, attempt) /\ attempt < maxRetries
                 THEN [@ EXCEPT !.pc = "backoff", !.outcomes = seen,
                                !.wakeAt = now + backoffDelay(attempt),
                                !.waits = Append(@, backoffDelay(attempt))]
               ELSE [@ EXCEPT !.pc = "rejected", !.outcomes = seen,
                              !.error = _createNetworkError(error)]]
    /\ UNCHANGED <<requestCount, lastDispatch, lastGap>>
    /\ UNCHANGED <<wsVars, appVars>>

BackoffElapsed ==
  \E r \in Requests :
    /\ req[r].pc = "backoff"
    /\ now >= req[r].wakeAt
    /\ Dispatch(r, req[r].attempt + 1)
    /\ UNCHANGED <<requestCount, lastRequestTime>>
    /\ UNCHANGED <<wsVars, appVars>>

\* Quantum milliseconds pass while some request is under way.
Tick ==
  /\ \E r \in Requests : req[r].pc \notin {"resolved", "rejected"}
  /\ \A r \in Requests : req[r].pc \in {"rateLimit", "backoff"} => now < req[r].wakeAt
  /\ lastRequestTime' = Back(lastRequestTime)
  /\ lastDispatch' = IF lastDispatch = -1 THEN -1 ELSE Back(lastDispatch)
  /\ req' = [r \in Requests |->
               IF req[r].pc \in {"rateLimit", "backoff"}
                 THEN [req[r] EXCEPT !.wakeAt = @ - Quantum]
                 ELSE req[r]]
  /\ UNCHANGED <<requestCount, lastGap>>
  /\ UNCHANGED <<wsVars, appVars>>

\* The constructor, lines 463-468; Date.now() is far from 0 then.
InitNet ==
  /\ requestCount = 0
  /\ lastRequestTime = 0
  /\ req = [r \in Requests |->
             [pc |-> "new", attempt |-> 0, wakeAt |-> 0, outcomes |-> <<>>,
              waits |-> <<>>, error |-> NoResult]]
  /\ lastDispatch = -1
  /\ lastGap = -1

NextNet ==
  \/ MakeRequest
  \/ RateLimitElapsed
  \/ Response
  \/ BackoffElapsed
  \/ Tick

(* ---- specifications ---- *)

(* The connection state machine.  Sends touch only pendingMessages and the  *)
(* send promises, which no connection handler reads, so they are left to    *)
(* SpecSend.                                                                *)
Next ==
  \/ Connect
  \/ Disconnect
  \/ AuthResponseEvent
  \/ TransportOpen
  \/ TransportError
  \/ TransportClose
  \/ HeartbeatFrame
  \/ Frame
  \/ ConnectionTimeout
  \/ AuthenticationTimeout
  \/ HeartbeatTick
  \/ HeartbeatTimeoutFires
  \/ ReconnectTimerFires

\* MessengerClient.constructor (MessengerClient.js:20-26): the options the
\* caller does not give take the values of Protocol.
DefaultOptions ==
  [maxRetries |-> maxRetries, rateLimitDelay |-> rateLimitDelay,
   retryDelay |-> retryDelay]

InitApp ==
  /\ options = DefaultOptions
  /\ subscribers = <<>>
  /\ dispatched = NoDispatch
  /\ isAuthenticated = FALSE
  /\ called = NoCall
  /\ InitMessages

Init == InitWs /\ InitNet /\ InitApp

vars == <<wsVars, netVars, appVars>>

Spec == Init /\ [][Next]_vars

(* The delivery tracker on top of the connection state machine.  A send     *)
(* reads isConnected and nothing else of the connection, and an             *)
(* acknowledgment needs only a transport that still delivers frames.  The   *)
(* reconnect and heartbeat timers act on the connection only by calling     *)
(* connect() and disconnect(), which are taken here as API calls, so the    *)
(* delivery tracker is explored with autoReconnect off and without the      *)
(* heartbeat callbacks.                                                     *)
InitSend == Init /\ autoReconnect = FALSE

NextSend ==
  \/ Connect
  \/ Disconnect
  \/ SendMessage
  \/ AuthResponseEvent
  \/ TransportOpen
  \/ TransportError
  \/ TransportClose
  \/ AckFrame
  \/ ConnectionTimeout
  \/ AuthenticationTimeout
  \/ AckTimeout

SpecSend == InitSend /\ [][NextSend]_vars

(* The request executor alone. *)
InitNetOnly == Init /\ autoReconnect = TRUE

SpecNet == InitNetOnly /\ [][NextNet]_vars

(* The dispatch of inbound events to the application's listeners, on top of *)
(* a connection that the caller opens and closes.                           *)
SubscriberLists ==
  UNION {[1..n -> {"returns", "throws"}] : n \in 0..MaxSubscribers}

InitDispatch ==
  /\ InitWs /\ autoReconnect = FALSE
  /\ InitNet
  /\ options = DefaultOptions
  /\ subscribers \in SubscriberLists
  /\ dispatched = NoDispatch
  /\ isAuthenticated = FALSE
  /\ called = NoCall
  /\ InitMessages

NextDispatch ==
  \/ Connect
  \/ Disconnect
  \/ AuthResponseEvent
  \/ TransportOpen
  \/ TransportClose
  \/ DeliverEvent

SpecDispatch == InitDispatch /\ [][NextDispatch]_vars

(* The client's guarded operations, with logins and logouts between them. *)
InitClient == Init /\ autoReconnect = FALSE

NextClient ==
  \/ Login
  \/ Logout
  \/ ClientCall
  \/ AuthResponseEvent
  \/ TransportOpen
  \/ TransportClose

SpecClient == InitClient /\ [][NextClient]_vars

(* The waits of the handle and of the request executor under the timers     *)
(* that bound them.  The handle and the executor share no variable and no   *)
(* action of one reads the other, so each is explored with the other at     *)
(* rest.  The fairness is what Node's timers and axios's timeout option     *)
(* (AuthManager.js:449) give: a timer that is due fires, an attempt in      *)
(* flight settles, and time passes.                                         *)
HandleAtRest == created = 0 /\ \A i \in MsgIds : sends[i] = "none"
ExecutorAtRest == requestCount = 0

NextWaits ==
  \/ ExecutorAtRest /\ Connect
  \/ ExecutorAtRest /\ Disconnect
  \/ ExecutorAtRest /\ SendMessage
  \/ ExecutorAtRest /\ AuthResponseEvent
  \/ ExecutorAtRest /\ TransportOpen
  \/ ExecutorAtRest /\ TransportError
  \/ ExecutorAtRest /\ TransportClose
  \/ ExecutorAtRest /\ AckFrame
  \/ ExecutorAtRest /\ ConnectionTimeout
  \/ ExecutorAtRest /\ AuthenticationTimeout
  \/ ExecutorAtRest /\ AckTimeout
  \/ HandleAtRest /\ MakeRequest
  \/ HandleAtRest /\ RateLimitElapsed
  \/ HandleAtRest /\ Response
  \/ HandleAtRest /\ BackoffElapsed
  \/ HandleAtRest /\ Tick

TimersFire ==
  /\ WF_vars(ExecutorAtRest /\ ConnectionTimeout)
  /\ WF_vars(ExecutorAtRest /\ AuthenticationTimeout)
  /\ WF_vars(ExecutorAtRest /\ AckTimeout)
  /\ WF_vars(HandleAtRest /\ RateLimitElapsed)
  /\ WF_vars(HandleAtRest /\ Response)
  /\ WF_vars(HandleAtRest /\ BackoffElapsed)
  /\ WF_vars(HandleAtRest /\ Tick)

SpecWaits == InitSend /\ [][NextWaits]_vars /\ TimersFire

(* The sends of an authenticated client through MessageManager. *)
NextMessages ==
  \/ Login
  \/ Logout
  \/ SendCall
  \/ SendSucceeds
  \/ SendFails
  \/ WindowElapses

SpecMessages == InitClient /\ [][NextMessages]_vars

(* The request executor of a client constructed with a maxRetries option of *)
(* the caller's choice.                                                     *)
InitNetOptions ==
  /\ InitWs /\ autoReconnect = TRUE
  /\ InitNet
  /\ options \in {[DefaultOptions EXCEPT !.maxRetries = n] : n \in 1..maxRetries}
  /\ subscribers = <<>>
  /\ dispatched = NoDispatch
  /\ isAuthenticated = FALSE
  /\ called = NoCall
  /\ InitMessages

SpecNetOptions == InitNetOptions /\ [][NextNet]_vars

(***************************************************************************)
(* Properties.                                                             *)
(***************************************************************************)
Range(s) == {s[k] : k \in 1..Len(s)}

Only(r, o) ==
  /\ req[r].outcomes # <<>>
  /\ \A k \in 1..Len(req[r].outcomes) : req[r].outcomes[k] = o

\* C1: an inbound acknowledgment frame whose message_id is the id of a send
\* that is still waiting for its acknowledgment resolves that send's promise.
C1_AckResolvesSend ==
  [][\A i \in MsgIds :
       (/\ sends[i] = "waiting"
        /\ Receiving
        /\ Step(_handleWebSocketMessage(World, [type |-> "acknowledgment", message_id |-> i])))
       => sends'[i] = "resolved"]_vars

\* C2: while connect() waits for the authentication response, an inbound
\* authentication acknowledgment reporting success opens the handle:
\* isConnected is true, the heartbeat interval runs, reconnectAttempts is 0
\* and 'connect' is emitted.
C2_AuthAckOpens ==
  (pc = "waitAuth" /\ transport[ws] = "open") =>
    LET w == _handleWebSocketMessage(
               World, [type |-> "authentication_response", success |-> TRUE])
    IN /\ w.isConnected
       /\ w.heartbeatInterval = "set"
       /\ w.reconnectAttempts = 0
       /\ "connect" \in Range(w.emitted)

\* C3: at most one transport created by the handle is live (created and not
\* yet closed) in every reachable state.
C3_OneLiveTransport == Cardinality(LiveTransports) <= 1

\* C4: a request whose every attempt is answered with HTTP 503 makes exactly
\* maxRetries attempts and then rejects with a NetworkError whose statusCode
\* is 503.
C4_ServerErrorsExhaustRetries ==
  \A r \in Requests :
    Only(r, Http(503)) =>
      /\ Len(req[r].outcomes) <= maxRetries
      /\ req[r].pc # "resolved"
      /\ req[r].pc = "rejected" <=> Len(req[r].outcomes) = maxRetries
      /\ req[r].pc = "rejected" =>
           /\ req[r].error.name = "NetworkError"
           /\ req[r].error.statusCode = 503

C4_Witness ==
  \E r \in Requests :
    /\ req[r].pc = "rejected"
    /\ req[r].outcomes = <<Http(503), Http(503), Http(503)>>
    /\ req[r].error.statusCode = 503

\* C5: a request whose attempts are all answered with HTTP 429 has made
\* maxRetries attempts when its error is surfaced.
C5_RateLimitedIsRetried ==
  \A r \in Requests :
    (Only(r, Http(429)) /\ req[r].pc = "rejected") =>
      Len(req[r].outcomes) = maxRetries

\* C6: a request whose first attempt is answered with a 4xx status other than
\* 429 makes exactly one attempt: it is rejected with no retry and no backoff
\* wait.
C6_ClientErrorNotRetried ==
  \A r \in Requests :
    (req[r].outcomes # <<>> /\ req[r].outcomes[1] = Http(404)) =>
      /\ req[r].pc = "rejected"
      /\ Len(req[r].outcomes) = 1
      /\ req[r].attempt = 1
      /\ req[r].waits = <<>>

C6_Witness ==
  \E r \in Requests :
    /\ req[r].pc = "rejected"
    /\ req[r].outcomes = <<Http(404)>>
    /\ req[r].waits = <<>>

\* C7: any two consecutive attempts dispatched by the manager are at least
\* rateLimitDelay apart.
C7_DispatchesSpaced == lastGap = -1 \/ lastGap >= rateLimitDelay

\* C8: on an open connection, a heartbeat acknowledgment frame received while
\* the heartbeat timeout is pending disarms it: no heartbeat timeout is
\* pending once the frame has been handled.
C8_HeartbeatAckDisarms ==
  [][(/\ isConnected
      /\ heartbeatTimeout = "pending"
      /\ Receiving
      /\ Step(_handleWebSocketMessage(World, [type |-> "heartbeat"])))
     => heartbeatTimeout' \notin Armed]_vars

\* C9: with autoReconnect enabled, when the heartbeat timeout of an open
\* connection expires (no reconnect timer being pending) the connection is
\* torn down (isConnected false, no heartbeat interval or heartbeat timeout
\* left pending, the transport closed) and a new connect attempt is started.
C9_HeartbeatTimeoutTearsDown ==
  [][(/\ autoReconnect
      /\ reconnectTimers = <<>>
      /\ isConnected
      /\ transport[ws] = "open"
      /\ heartbeatTimeout = "pending"
      /\ HeartbeatTimeoutFires)
     => (/\ ~isConnected'
         /\ transport'[ws] = "closing"
         /\ heartbeatInterval' = "null" /\ leakedIntervals' = 0
         /\ heartbeatTimeout' = "null" /\ orphanTimeouts' = 0
         /\ isConnecting' /\ pc' = "waitOpen"
         /\ ws' \notin {0, ws} /\ transport'[ws'] = "connecting")]_vars

\* C10: with autoReconnect enabled and reconnectAttempts = 0, a transport
\* close on an open connection sets a reconnect timer of reconnectDelay * 2^0;
\* when a reconnect timer expires on an idle handle a connect() attempt
\* starts; and a connect() that succeeds leaves reconnectAttempts at 0 and
\* emits 'connect'.
C10_CloseReconnects ==
  [][/\ (/\ autoReconnect /\ isConnected /\ reconnectAttempts = 0
         /\ \E t \in Transports :
              /\ transport[t] = "open"
              /\ Step(_handleWebSocketClose([World EXCEPT !.transport[t] = "closed"])))
        => (/\ ~isConnected'
            /\ reconnectAttempts' = 1
            /\ reconnectTimers' = AddTimer(reconnectTimers, reconnectDelay * Pow2(0)))
     /\ (/\ ~isConnected /\ ~isConnecting
         /\ ReconnectTimerFires)
        => (/\ isConnecting' /\ pc' = "waitOpen"
            /\ ws' # 0
            /\ transport[ws'] \in {"none", "closed"} /\ transport'[ws'] = "connecting"
            /\ "connecting" \in Range(connect(World).emitted))
     /\ (~isConnected /\ isConnected')
        => (/\ reconnectAttempts' = 0
            /\ ~isConnecting'
            /\ "connect" \in Range(connectAuthenticated(World).emitted))]_vars

C10_Witness ==
  /\ autoReconnect
  /\ isConnected /\ reconnectAttempts = 0
  /\ transport[ws] = "open"
  /\ leakedIntervals = 1
  /\ reconnectTimers = <<>>

\* C11: after an explicit disconnect() no reconnect timer is pending, and
\* until connect() is called again (this.ws stays null) the close the
\* transport reports sets no reconnect timer and an expiring reconnect timer
\* starts no connect attempt.
C11_DisconnectCancelsReconnect ==
  [][/\ (autoReconnect /\ isConnected /\ Step(disconnect(World)))
        => reconnectTimers' = <<>>
     /\ (/\ autoReconnect /\ ws = 0 /\ ~isConnected /\ ~isConnecting
         /\ \E t \in Transports :
              /\ transport[t] = "closing"
              /\ Step(_handleWebSocketClose([World EXCEPT !.transport[t] = "closed"])))
        => reconnectTimers' = reconnectTimers
     /\ (autoReconnect /\ ws = 0 /\ ~isConnecting /\ ReconnectTimerFires)
        => ~isConnecting']_vars

\* C12: disconnect() on an open connection leaves the handle idle, whether
\* the transport's close call returns or throws: isConnected is false, the
\* heartbeat interval and the heartbeat timeout are cleared and 'disconnect'
\* has been emitted.
C12_DisconnectGoesIdle ==
  (isConnected /\ ws # 0 /\ transport[ws] = "open") =>
    \A w \in {disconnect(World), disconnectCloseThrows(World)} :
      /\ ~w.isConnected
      /\ w.heartbeatInterval = "null"
      /\ w.heartbeatTimeout = "null"
      /\ "disconnect" \in Range(w.emitted)

\* C13: with autoReconnect off, every connect attempt is started by the
\* caller's connect(): no timer callback or transport event starts one.
C13_NoConnectOnItsOwn ==
  [][(~autoReconnect /\ ~isConnecting /\ isConnecting') => Step(connect(World))]_vars

\* C14: reconnectAttempts never exceeds maxReconnectAttempts, and while it
\* equals maxReconnectAttempts a transport close or error event sets no
\* reconnect timer and leaves the counter as it is (checked on the steps the
\* events take and on what either handler returns in such a state).
C14_ReconnectAttemptsCapped ==
  [][/\ reconnectAttempts' <= maxReconnectAttempts
     /\ (reconnectAttempts = maxReconnectAttempts /\ (TransportClose \/ TransportError))
        => (/\ reconnectTimers' = reconnectTimers
            /\ reconnectAttempts' = reconnectAttempts)
     /\ reconnectAttempts = maxReconnectAttempts
        => \A w \in {_handleWebSocketClose(World), _handleWebSocketError(World)} :
             /\ w.reconnectTimers = reconnectTimers
             /\ w.reconnectAttempts = reconnectAttempts]_vars

C14_Witness ==
  /\ autoReconnect
  /\ reconnectAttempts = maxReconnectAttempts
  /\ ws # 0 /\ transport[ws] = "closed"
  /\ ~isConnected /\ ~isConnecting

\* C15: with autoReconnect enabled and reconnectAttempts at
\* maxReconnectAttempts, a transport failure reported by a close event leaves
\* the handle not connected, sets no reconnect timer and emits an error event
\* to the subscribers.
C15_ExhaustedSurfacesError ==
  (autoReconnect /\ reconnectAttempts = maxReconnectAttempts) =>
    \A t \in Transports :
      transport[t] \in {"open", "failing"} =>
        LET w == _handleWebSocketClose([World EXCEPT !.transport[t] = "closed"])
        IN /\ ~w.isConnected
           /\ w.reconnectTimers = reconnectTimers
           /\ "error" \in Range(w.emitted)

\* C16: at most one reconnect timer is pending in every reachable state.
C16_OneReconnectTimer == Len(reconnectTimers) <= 1

\* C17: with autoReconnect enabled and reconnect attempts remaining, when
\* the wait for the authentication response ends in failure (a response
\* reporting failure, or the authentication timeout) a reconnect timer is set.
C17_AuthFailureReconnects ==
  [][(/\ autoReconnect
      /\ reconnectAttempts < maxReconnectAttempts
      /\ pc = "waitAuth"
      /\ Step(connectFailed(World)))
     => Len(reconnectTimers') = Len(reconnectTimers) + 1]_vars

\* C18: no record stays in pendingMessages once its send has settled: a send
\* that was resolved or rejected (by its acknowledgment timeout) has no entry.
C18_SettledSendHasNoRecord ==
  \A i \in MsgIds :
    sends[i] \in {"resolved", "rejected"} => i \notin DOMAIN pendingMessages

C20_StrayAckIsNoOp ==
  \A i \in MsgIds :
    sends[i] \in {"none", "rejected"} =>
      _handleWebSocketMessage(World, [type |-> "acknowledgment", message_id |-> i]) = World

\* C21: a request rejected because the remote answered its last attempt with
\* an HTTP status of 400 or above surfaces an error whose details carry that
\* status code (the response body is set from the same response, by the same
\* branch of the code).
C21_HttpErrorCarriesStatus ==
  \A r \in Requests :
    LET n == Len(req[r].outcomes)
    IN (/\ req[r].pc = "rejected"
        /\ req[r].outcomes[n].kind = "http"
        /\ req[r].outcomes[n].status >= 400)
       => req[r].error.statusCode = req[r].outcomes[n].status

\* C22: a client constructed with the option maxRetries = N makes at most N
\* attempts per logical request.
C22_OptionsAreHonoured ==
  \A r \in Requests :
    /\ req[r].attempt <= options.maxRetries
    /\ Len(req[r].outcomes) <= options.maxRetries

\* C23: a subscriber that throws while handling a dispatched event is
\* isolated: the exception does not escape the inbound-frame handler and
\* every subscriber registered for the event is invoked.
C23_ThrowingSubscriberIsolated ==
  dispatched.event # "" =>
    /\ ~dispatched.escaped
    /\ dispatched.invoked = 1..Len(subscribers)

\* C24: an inbound frame that cannot be decoded, or that decodes to an
\* unknown discriminant, is discarded: handling it emits no event, changes no
\* state of the handle and lets no exception escape, whatever the listeners.
DiscardedFrames ==
  {[type |-> "malformed"], [type |-> "unknown"], [type |-> "presence"]}
    \cup [type : {"authentication_response"}, success : BOOLEAN]

C24_BadFrameDiscarded ==
  Receiving =>
    \A f \in DiscardedFrames :
      LET w == _handleWebSocketMessage(World, f)
      IN /\ w = World
         /\ dispatch(w, subscribers) = NoDispatch

C24_Witness ==
  /\ Receiving
  /\ dispatched.event # ""
  /\ subscribers # <<>>
  /\ pc = "waitAuth"

\* C25: connect() called while isConnecting or isConnected is true returns
\* without creating a transport, without emitting 'connecting' and without
\* changing any field of the handle.
C25_ConnectGuardNoOp ==
  (isConnected \/ isConnecting) => connect(World) = World

C25_Witness ==
  /\ isConnecting
  /\ pc = "waitOpen"
  /\ transport[ws] = "connecting"
  /\ FreeSlots(World) # {}
  /\ created < MaxConnects

\* C26: after destroy() on a handle in any state no heartbeat interval, no
\* heartbeat timeout and no reconnect timer is pending and no transport of
\* the handle is live, so that nothing is left to start a connect attempt.
C26_DestroyLeavesNothing ==
  LET w == destroy(World)
  IN /\ HbIntervalsRunning(w) = 0
     /\ HbTimersPending(w) = 0
     /\ w.reconnectTimers = <<>>
     /\ \A t \in Transports : w.transport[t] \notin {"connecting", "open"}

\* C27: a guarded operation of the client that is called while
\* client.isAuthenticated is false ends with the AuthError "Not
\* authenticated", is not handed to a manager, so that no request goes out,
\* and leaves the client, the connection handle and the request executor as
\* they were.
C27_UnauthenticatedCallRejected ==
  [][(~isAuthenticated /\ called' # called /\ called'.op \in GuardedOps)
       => /\ called'.error = "AuthError: Not authenticated"
          /\ ~called'.delegated
          /\ UNCHANGED <<wsVars, netVars, options, subscribers, dispatched,
                         isAuthenticated>>]_vars

\* A guarded operation was rejected after a logout that followed a login.
C27_Witness ==
  /\ ~isAuthenticated
  /\ called.op = "getChats"
  /\ called.error = "AuthError: Not authenticated"
  /\ created > 0

\* C28: when the transport of an open connection closes, the manager emits
\* 'disconnect', so that client.isConnected, which was set when the
\* connection opened, is cleared together with the manager's isConnected.
C28_CloseEmitsDisconnect ==
  \A t \in Transports :
    (isConnected /\ ws = t /\ transport[t] = "open") =>
      LET w == _handleWebSocketClose([World EXCEPT !.transport[t] = "closed"])
      IN /\ "disconnect" \in Range(w.emitted)
         /\ clientIsConnected(TRUE, w.emitted) = w.isConnected

\* C29: whenever an attempt of _makeRequest settles, with a response of any
\* status or with a transport failure, lastRequestTime is the time of that
\* moment.
C29_EveryAttemptTracked ==
  [][\A r \in Requests :
       (req[r].pc = "inflight" /\ req'[r].pc # "inflight")
         => lastRequestTime' = now]_vars

\* C30: within one call of _makeRequest the k-th backoff wait is
\* retryDelay * k and follows the failed attempt k: a request at attempt n
\* has waited n - 1 times (n times once it is in the backoff after attempt
\* n), so there is no wait before attempt 1, and a request that has settled
\* after its final attempt has not waited after it.
C30_LinearBackoff ==
  \A r \in Requests :
    /\ \A k \in 1..Len(req[r].waits) : req[r].waits[k] = retryDelay * k
    /\ req[r].pc \in {"inflight", "resolved", "rejected"}
         => Len(req[r].waits) = req[r].attempt - 1
    /\ req[r].pc = "backoff"
         => /\ Len(req[r].waits) = req[r].attempt
            /\ req[r].attempt < maxRetries
    /\ req[r].pc \in {"new", "rateLimit"} => req[r].waits = <<>>

\* A request was rejected after its final attempt, having waited after the
\* first and the second attempt only.
C30_Witness ==
  \E r \in Requests :
    /\ req[r].pc = "rejected"
    /\ req[r].attempt = maxRetries
    /\ req[r].waits = <<retryDelay, retryDelay * 2>>

\* C31: every scheduled reconnect raises reconnectAttempts by one and sets
\* one timer of reconnectDelay * 2^(reconnectAttempts - 1), the counter taken
\* after the increment, and nothing else raises the counter; so the delay of
\* a reconnect scheduled after another one, with no successful connect
\* between them, is at least the delay of the one before.
C31_ReconnectDelaysGrow ==
  [][/\ Len(reconnectTimers') > Len(reconnectTimers)
        => /\ reconnectAttempts' = reconnectAttempts + 1
           /\ reconnectTimers' =
                AddTimer(reconnectTimers, reconnectDelay * 2^(reconnectAttempts' - 1))
           /\ reconnectAttempts > 0
                => \E d \in Range(reconnectTimers') :
                     /\ d = reconnectDelay * 2^(reconnectAttempts' - 1)
                     /\ d >= reconnectDelay * 2^(reconnectAttempts - 1)
     /\ reconnectAttempts' > reconnectAttempts
        => Len(reconnectTimers') = Len(reconnectTimers) + 1]_vars

\* The third reconnect in a row has been scheduled, with a delay of four
\* times reconnectDelay.
C31_Witness ==
  /\ autoReconnect
  /\ reconnectAttempts = 3
  /\ reconnectDelay * 4 \in Range(reconnectTimers)

\* C32: reconnectAttempts falls only in a step that takes the handle from
\* connecting to connected, the success path of connect(), and that step
\* leaves it at 0: no disconnect(), failed connect, transport close or error,
\* heartbeat callback or inbound frame lowers it.
C32_CounterResetOnlyOnOpen ==
  [][reconnectAttempts' < reconnectAttempts
       => /\ reconnectAttempts' = 0
          /\ pc = "waitAuth" /\ isConnecting /\ ~isConnected
          /\ isConnected' /\ ~isConnecting' /\ pc' = "idle"]_vars

\* A connect() succeeded after two scheduled reconnects and reset the counter
\* while a reconnect timer of the failed period is still pending.
C32_Witness ==
  /\ autoReconnect
  /\ isConnected /\ reconnectAttempts = 0
  /\ reconnectDelay * 2 \in Range(reconnectTimers)

\* C33: a heartbeat payload goes out on a transport only after the
\* authentication payload was sent on that transport and acknowledged: the
\* transport that heartbeats are sent on changes only in the step in which
\* the authentication wait of connect() on that very transport resolves, also
\* while heartbeat intervals of earlier connections are still running.
C33_HeartbeatAfterAuthentication ==
  [][LET target == heartbeatTarget(World)'
     IN (target # 0 /\ target # heartbeatTarget(World))
          => /\ pc = "waitAuth" /\ isConnecting
             /\ ws = target
             /\ pc' = "idle" /\ ~isConnecting']_vars

\* A reconnect has been authenticated on a new transport while the heartbeat
\* interval of the earlier connection is still running: its callback sends
\* on the new transport.
C33_Witness ==
  /\ leakedIntervals > 0
  /\ created >= 2
  /\ heartbeatTarget(World) # 0
  /\ transport[heartbeatTarget(World)] = "open"

\* C34: every wait ends.  A connect() that is under way settles, with
\* isConnecting false again; a sendMessage() that waits for its
\* acknowledgment settles; and a request that the executor has taken up
\* returns a response or an error.
C34_EveryWaitEnds ==
  /\ isConnecting ~> (~isConnecting /\ pc = "idle")
  /\ \A i \in MsgIds :
       (sends[i] = "waiting") ~> (sends[i] \in {"resolved", "rejected"})
  /\ \A r \in Requests :
       (req[r].pc \in {"rateLimit", "inflight", "backoff"})
         ~> (req[r].pc \in {"resolved", "rejected"})

\* A send was rejected by its acknowledgment timeout on a connection that is
\* still open, after a connect() that settled.
C34_Witness ==
  /\ isConnected /\ ~isConnecting /\ pc = "idle"
  /\ \E i \in MsgIds : sends[i] = "rejected" /\ i \in DOMAIN pendingMessages

\* C35: disconnect() on a connected handle rejects every send that is
\* waiting for its acknowledgment and drops its pending record: when the
\* call returns no such send is still waiting and none has a record left.
C35_DisconnectRejectsSends ==
  isConnected =>
    LET w == disconnect(World)
    IN \A i \in MsgIds :
         sends[i] = "waiting"
           => w.sends[i] = "rejected" /\ i \notin DOMAIN w.pendingMessages

\* C36: within a window of the rate limit at most messageLimit sends
\* succeed, however the calls of _sendMessage interleave: while the window
\* lasts, the count of the sends that succeeded in it is at most
\* messageLimit.
C36_AtMostLimitPerWindow == ~windowExpired => messageCount <= messageLimit

\* C37: isConnected and isConnecting are never both true between two
\* handlers.
C37_NotConnectedAndConnecting == ~(isConnected /\ isConnecting)

\* A connect() started by a reconnect timer is under way on a second
\* transport after an authenticated connection was lost.
C37_Witness ==
  /\ autoReconnect
  /\ isConnecting /\ ~isConnected
  /\ created >= 2
  /\ leakedIntervals > 0
  /\ reconnectAttempts > 0

\* C38: in every reachable state at most one heartbeat interval of the
\* handle is running.
C38_OneHeartbeatInterval == HbIntervalsRunning(World) <= 1

\* C39: a sendMessage() that rejects, because the handle is not connected
\* or because the send call throws, leaves pendingMessages as it was before
\* the call.
C39_FailedSendLeavesNoRecord ==
  (\E i \in MsgIds : sends[i] = "none") =>
    /\ ~isConnected => sendMessage(World).pendingMessages = pendingMessages
    /\ sendMessageThrows(World).pendingMessages = pendingMessages

\* C40: a login() that rejects leaves the client unauthenticated.  In
\* SpecClient every connect() is the one a login() waits for, so the step in
\* which a connect() under way ends without a connection is the step in
\* which that login() rejects: after it isAuthenticated is false.
C40_RejectedLoginUnauthenticated ==
  [][(isConnecting /\ ~isConnecting' /\ ~isConnected') => ~isAuthenticated']_vars

====
